---------------------------- MODULE Spec2Model ----------------------------
(***************************************************************************)
(* State-machine model of the appointment-booking application in           *)
(* src/main.py: the user and appointment tables, the per-browser Flask     *)
(* session, and one action per step of every route handler.  A handler     *)
(* that queries the store and later commits a write is two (or, with the   *)
(* SMS, three) steps, so that requests of different clients interleave     *)
(* between a query and the commit that follows it.                         *)
(***************************************************************************)
EXTENDS Integers, Sequences, FiniteSets, TLC

VARIABLES users, appts, session, pend, last, twilio

vars == <<users, appts, session, pend, last, twilio>>

(***************************************************************************)
(* Bounds of the model.                                                    *)
(***************************************************************************)
\* Largest primary key an appointment row may get.
MaxApptId == 1
\* Number of rows of the appointment table drawn by the calendar specification.
MaxCalAppts == 2

\* Browser sessions (cookie jars) issuing requests.
Clients == {"c1", "c2"}

(***************************************************************************)
(* Strings that the handlers strip or lower-case are sequences of          *)
(* one-character strings.                                                  *)
(***************************************************************************)
IsSpace(ch) == ch = " "

RECURSIVE LStrip(_)
LStrip(s) == IF s # <<>> /\ IsSpace(Head(s)) THEN LStrip(Tail(s)) ELSE s

RECURSIVE RStrip(_)
RStrip(s) ==
    IF s # <<>> /\ IsSpace(s[Len(s)]) THEN RStrip(SubSeq(s, 1, Len(s) - 1)) ELSE s

\* str.strip()
Strip(s) == RStrip(LStrip(s))

LowerChar(ch) ==
    CASE ch = "A" -> "a"
      [] ch = "B" -> "b"
      [] ch = "C" -> "c"
      [] OTHER -> ch

\* str.lower()
Lower(s) == [i \in 1..Len(s) |-> LowerChar(s[i])]

\* request.form.get("email", "").strip().lower()
NormEmail(raw) == Lower(Strip(raw))

\* generate_password_hash / check_password_hash: the hash determines the
\* password it was made from and nothing else matches it.
set_password(raw) == <<"hash", raw>>

check_password(hash, raw) == hash = <<"hash", raw>>

(***************************************************************************)
(* datetime values: [y, m, d, t] with t the minute of the day.             *)
(***************************************************************************)
IsLeap(y) == (y % 4 = 0 /\ y % 100 # 0) \/ y % 400 = 0

DaysInMonth(y, m) ==
    IF m = 2 THEN (IF IsLeap(y) THEN 29 ELSE 28)
    ELSE IF m \in {4, 6, 9, 11} THEN 30 ELSE 31

datetime(y, m, d, t) == [y |-> y, m |-> m, d |-> d, t |-> t]

\* The years datetime(...) accepts (it raises ValueError for any other).
ValidYear(y) == y \in 1..9999

\* a < b on datetimes
DtLess(a, b) ==
    \/ a.y < b.y
    \/ a.y = b.y /\ a.m < b.m
    \/ a.y = b.y /\ a.m = b.m /\ a.d < b.d
    \/ a.y = b.y /\ a.m = b.m /\ a.d = b.d /\ a.t < b.t

\* a <= b on datetimes
DtLeq(a, b) == a = b \/ DtLess(a, b)

\* datetime.strptime(f"{date} {time}", "%Y-%m-%d %H:%M") succeeds
ParsesOk(date, time) ==
    /\ date.y \in 1..9999
    /\ date.m \in 1..12
    /\ date.d \in 1..DaysInMonth(date.y, date.m)
    /\ time.h \in 0..23
    /\ time.mi \in 0..59

strptime(date, time) == datetime(date.y, date.m, date.d, time.h * 60 + time.mi)


(***************************************************************************)
(* The stores.  users and appts are the two tables, as functions from the  *)
(* primary key to the row.  An empty or NULL phone is the empty sequence   *)
(* (send_sms treats both alike).                                           *)
(***************************************************************************)
User(fullname, email, password, phone) ==
    [fullname |-> fullname, email |-> email,
     password_hash |-> set_password(password), role |-> "user", phone |-> phone]

Appointment(user_id, title, start_at, services) ==
    [user_id |-> user_id, title |-> title, start_at |-> start_at,
     notes |-> "None", services |-> services, canceled |-> FALSE]

\* The boss account, provisioned out of band (no route creates or changes a boss).
BossUser ==
    [fullname |-> <<"X">>, email |-> <<"x">>,
     password_hash |-> set_password("pw0"), role |-> "boss", phone |-> <<>>]

SetMax(S) == CHOOSE x \in S : \A y \in S : y <= x

\* INTEGER PRIMARY KEY of SQLite: the largest key in the table plus one.
NextId(table) == IF DOMAIN table = {} THEN 1 ELSE SetMax(DOMAIN table) + 1

Insert(table, row) ==
    [k \in DOMAIN table \cup {NextId(table)} |->
        IF k \in DOMAIN table THEN table[k] ELSE row]

Delete(table, id) == [k \in DOMAIN table \ {id} |-> table[k]]

(***************************************************************************)
(* Sessions and the access helpers.                                        *)
(***************************************************************************)
\* session.clear(): a session with no keys
EmptySession == [k \in {} |-> 0]

LoggedSession(id, u) ==
    [user_id |-> id, user_name |-> u.fullname,
     role |-> IF u.role = "None" THEN "user" ELSE u.role]

is_logged_in(s) == "user_id" \in DOMAIN s

is_boss(s) == "role" \in DOMAIN s /\ s.role = "boss"

\* Faulty variant of block_boss_only: the role is compared with a string no
\* session holds, so no request is redirected.
block_boss_wrong_role(s) == is_logged_in(s) /\ "role" \in DOMAIN s /\ s.role = "Boss"

\* The requests that block_boss_only turns into a redirect to the calendar.
block_boss_only(s) == is_logged_in(s) /\ is_boss(s)

(***************************************************************************)
(* Requests in flight and the response of the latest step.                 *)
(***************************************************************************)
Idle == [pc |-> "idle", id |-> 0, row |-> <<>>]

InFlight(pc, id, row) == [pc |-> pc, id |-> id, row |-> row]

NoView ==
    [asked |-> <<0, 0>>, year |-> 0, month |-> 0, appts |-> <<>>, by_day |-> <<>>,
     prev |-> <<0, 0>>, next |-> <<0, 0>>]

\* What the step just taken was: client, handler, appointment id (0 when the
\* handler takes none), outcome (the flash message or the page), and the data
\* handed to the page: the list's rows in `appts`; the calendar's year, month,
\* day buckets and neighbouring months, with the year and month the request
\* asked for in `asked`.
Ev(c, op, id, outcome) ==
    [c |-> c, op |-> op, id |-> id, outcome |-> outcome, view |-> NoView]

EvView(c, op, view) ==
    [c |-> c, op |-> op, id |-> 0, outcome |-> "rendered", view |-> view]

(***************************************************************************)
(* The forms clients post.                                                 *)
(***************************************************************************)
LoginForms ==
    { [fullname |-> <<"X">>, password |-> "pw0"],
      [fullname |-> <<"A">>, password |-> "pw1"],
      [fullname |-> <<" ", "B">>, password |-> "pw2"],
      [fullname |-> <<"M">>, password |-> "pw2"],
      [fullname |-> <<"A">>, password |-> "pw2"],
      [fullname |-> <<" ">>, password |-> "pw1"] }

RegForm(fullname, email, phone, password, confirm) ==
    [fullname |-> fullname, email |-> email, phone |-> phone,
     password |-> password, confirm |-> confirm]

\* Two valid registrations, one with blank email, one with a wrong confirmation.
RegForms ==
    { RegForm(<<"A">>, <<"a">>, <<"1">>, "pw1", "pw1"),
      RegForm(<<" ", "B">>, <<"B", " ">>, <<" ">>, "pw2", "pw2"),
      RegForm(<<"C">>, <<" ">>, <<>>, "pw1", "pw1"),
      RegForm(<<"C">>, <<"c">>, <<>>, "pw1", "pw2") }

\* A registration with the first one's email, written differently, and other
\* values in every other field.
SameEmailForm == RegForm(<<"M">>, <<" ", "A">>, <<"2">>, "pw2", "pw2")

Methods == {"GET", "POST"}

Init ==
    /\ users = (1 :> BossUser)
    /\ appts = [k \in {} |-> 0]
    /\ session = [c \in Clients |-> EmptySession]
    /\ pend = [c \in Clients |-> Idle]
    /\ last = Ev("c1", "start", 0, "none")
    /\ twilio \in BOOLEAN

(***************************************************************************)
(* Sign in, landing page, logout.                                          *)
(***************************************************************************)
\* POST / (GET renders the form)
home(c, method, form) ==
    /\ pend[c].pc = "idle"
    /\ UNCHANGED <<users, appts, pend, twilio>>
    /\ LET fullname == Strip(form.fullname)
           password == form.password
           found == {id \in DOMAIN users : users[id].fullname = fullname}
       IN  IF method = "GET"
           THEN /\ last' = Ev(c, "home", 0, "rendered")
                /\ UNCHANGED session
           ELSE IF fullname = <<>> \/ password = ""
           THEN /\ last' = Ev(c, "home", 0, "missing_credentials")
                /\ UNCHANGED session
           ELSE IF found = {}
           THEN /\ last' = Ev(c, "home", 0, "invalid_credentials")
                /\ UNCHANGED session
           ELSE \E id \in found :
                  IF ~check_password(users[id].password_hash, password)
                  THEN /\ last' = Ev(c, "home", 0, "invalid_credentials")
                       /\ UNCHANGED session
                  ELSE /\ session' = [session EXCEPT ![c] = LoggedSession(id, users[id])]
                       /\ last' = Ev(c, "home", id,
                                     IF users[id].role = "boss"
                                     THEN "redirect_calendar" ELSE "redirect_main")

\* GET /main
main(c) ==
    /\ pend[c].pc = "idle"
    /\ UNCHANGED <<users, appts, session, pend, twilio>>
    /\ last' = Ev(c, "main", 0,
                  IF block_boss_only(session[c]) THEN "redirect_calendar"
                  ELSE IF ~is_logged_in(session[c]) THEN "login_required"
                  ELSE "rendered")

\* GET /logout
logout(c) ==
    /\ pend[c].pc = "idle"
    /\ session' = [session EXCEPT ![c] = EmptySession]
    /\ last' = Ev(c, "logout", 0, "logged_out")
    /\ UNCHANGED <<users, appts, pend, twilio>>

(***************************************************************************)
(* Registration.  The handler's existence query and its INSERT are two     *)
(* steps; the email column is declared unique, so the store itself refuses *)
(* a second row with an email it already holds (IntegrityError, which the  *)
(* handler does not catch).                                                *)
(***************************************************************************)
\* User.query.filter_by(email=email).first() finds a row
EmailTaken(email) == \E id \in DOMAIN users : users[id].email = email

\* unique=True on user.email: the INSERT is accepted
UniqueEmailOk(table, row) == \A id \in DOMAIN table : table[id].email # row.email

\* GET/POST /create-account, up to the existence query
create_account(c, method, form) ==
    /\ pend[c].pc = "idle"
    /\ UNCHANGED <<users, appts, session, twilio>>
    /\ LET fullname == Strip(form.fullname)
           email == NormEmail(form.email)
           phone == Strip(form.phone)
           done(outcome) == /\ last' = Ev(c, "create_account", 0, outcome)
                            /\ UNCHANGED pend
       IN  IF block_boss_only(session[c]) THEN done("redirect_calendar")
           ELSE IF method = "GET" THEN done("rendered")
           ELSE IF fullname = <<>> \/ email = <<>> \/ form.password = ""
           THEN done("fields_required")
           ELSE IF form.password # form.confirm THEN done("password_mismatch")
           ELSE IF EmailTaken(email) THEN done("already_registered")
           ELSE /\ pend' = [pend EXCEPT ![c] =
                       InFlight("reg_insert", 0, User(fullname, email, form.password, phone))]
                /\ last' = Ev(c, "create_account", 0, "pending")

\* db.session.add(user); db.session.commit()
create_account_commit(c) ==
    /\ pend[c].pc = "reg_insert"
    /\ pend' = [pend EXCEPT ![c] = Idle]
    /\ UNCHANGED <<appts, session, twilio>>
    /\ IF UniqueEmailOk(users, pend[c].row)
       THEN /\ users' = Insert(users, pend[c].row)
            /\ last' = Ev(c, "create_account", NextId(users), "account_created")
       ELSE /\ UNCHANGED users
            /\ last' = Ev(c, "create_account", 0, "server_error")

(***************************************************************************)
(* Booking and listing (customer).                                         *)
(***************************************************************************)
Svc(name) == <<"service", name>>

ApptForm(services, special, y, m, d, h, mi) ==
    [services |-> services, special_request |-> special,
     date |-> [y |-> y, m |-> m, d |-> d], time |-> [h |-> h, mi |-> mi]]

ApptForms ==
    { ApptForm(<<Svc("Haircut"), Svc("Color")>>, <<"w", " ">>, 2024, 12, 31, 23, 59),
      ApptForm(<<>>, <<" ">>, 2025, 1, 1, 0, 0),
      ApptForm(<<Svc("Haircut")>>, <<>>, 2025, 2, 30, 10, 0) }

\* GET/POST /appointments/new
create_appointment(c, method, form) ==
    /\ pend[c].pc = "idle"
    /\ UNCHANGED <<users, session, pend, twilio>>
    /\ LET special == Strip(form.special_request)
           services_list == IF special # <<>>
                            THEN Append(form.services, <<"Special Request", special>>)
                            ELSE form.services
           done(outcome) == /\ last' = Ev(c, "create_appointment", 0, outcome)
                            /\ UNCHANGED appts
       IN  IF block_boss_only(session[c]) THEN done("redirect_calendar")
           ELSE IF ~is_logged_in(session[c]) THEN done("login_required")
           ELSE IF method = "GET" THEN done("rendered")
           ELSE IF services_list = <<>> THEN done("select_service")
           ELSE IF ~ParsesOk(form.date, form.time) THEN done("invalid_datetime")
           ELSE /\ NextId(appts) <= MaxApptId
                /\ appts' = Insert(appts,
                       Appointment(session[c].user_id, services_list[1],
                                   strptime(form.date, form.time), services_list))
                /\ last' = Ev(c, "create_appointment", NextId(appts), "appointment_created")

\* Row i comes before row j in ORDER BY start_at ASC (rows with equal start_at
\* in primary-key order).
Before(i, j) ==
    \/ DtLess(appts[i].start_at, appts[j].start_at)
    \/ appts[i].start_at = appts[j].start_at /\ i <= j

RECURSIVE OrderByStart(_)
OrderByStart(S) ==
    IF S = {} THEN <<>>
    ELSE LET first == CHOOSE i \in S : \A j \in S : Before(i, j)
         IN  <<first>> \o OrderByStart(S \ {first})

\* Appointment.query.filter_by(user_id=session["user_id"]).order_by(start_at.asc()).all()
ListQuery(s) ==
    OrderByStart({id \in DOMAIN appts : appts[id].user_id = s.user_id})

\* GET /appointments
list_appointments(c) ==
    /\ pend[c].pc = "idle"
    /\ UNCHANGED <<users, appts, session, pend, twilio>>
    /\ IF block_boss_only(session[c])
       THEN last' = Ev(c, "list_appointments", 0, "redirect_calendar")
       ELSE IF ~is_logged_in(session[c])
       THEN last' = Ev(c, "list_appointments", 0, "login_required")
       ELSE last' = EvView(c, "list_appointments",
                           [NoView EXCEPT !.appts = ListQuery(session[c])])

(***************************************************************************)
(* Soft cancel by the owner.  The SELECT and the UPDATE ... WHERE id = ?   *)
(* that the commit flushes are separate steps.                             *)
(***************************************************************************)
\* Faulty variant of SoftCancel: the flag is flipped instead of set.
SoftCancelToggle(table, id) == [table EXCEPT ![id].canceled = ~table[id].canceled]

\* appt.canceled = True, as the UPDATE the commit flushes
SoftCancel(table, id) == [table EXCEPT ![id].canceled = TRUE]

\* Appointment.query.filter_by(id=appt_id, user_id=session["user_id"]).first()
\* finds a row
OwnQuery(s, id) == id \in DOMAIN appts /\ appts[id].user_id = s.user_id

\* POST /appointments/<id>/cancel, up to the checks on the row read
customer_cancel_appointment(c, id) ==
    /\ pend[c].pc = "idle"
    /\ UNCHANGED <<users, appts, session, twilio>>
    /\ LET done(outcome) == /\ last' = Ev(c, "customer_cancel_appointment", id, outcome)
                            /\ UNCHANGED pend
       IN  IF block_boss_only(session[c]) THEN done("redirect_calendar")
           ELSE IF ~is_logged_in(session[c]) THEN done("login_required")
           ELSE IF ~OwnQuery(session[c], id) THEN done("not_found")
           ELSE IF appts[id].canceled THEN done("already_canceled")
           ELSE /\ pend' = [pend EXCEPT ![c] = InFlight("cc_commit", id, <<>>)]
                /\ last' = Ev(c, "customer_cancel_appointment", id, "pending")

\* appt.canceled = True; db.session.commit().  The UPDATE names the row by its
\* primary key alone; when no row has that key any more the commit raises
\* (StaleDataError), which the handler does not catch.
customer_cancel_commit(c) ==
    /\ pend[c].pc = "cc_commit"
    /\ pend' = [pend EXCEPT ![c] = Idle]
    /\ UNCHANGED <<users, session, twilio>>
    /\ LET id == pend[c].id
       IN  IF id \in DOMAIN appts
           THEN /\ appts' = SoftCancel(appts, id)
                /\ last' = Ev(c, "customer_cancel_appointment", id, "canceled")
           ELSE /\ UNCHANGED appts
                /\ last' = Ev(c, "customer_cancel_appointment", id, "server_error")

(***************************************************************************)
(* Hard delete and boss cancel.                                            *)
(***************************************************************************)
\* POST /appointments/<id>/delete, up to Appointment.query.get
delete_appointment(c, id) ==
    /\ pend[c].pc = "idle"
    /\ UNCHANGED <<users, appts, session, twilio>>
    /\ LET done(outcome) == /\ last' = Ev(c, "delete_appointment", id, outcome)
                            /\ UNCHANGED pend
       IN  IF ~is_logged_in(session[c]) THEN done("login_required")
           ELSE IF ~is_boss(session[c]) THEN done("unauthorized")
           ELSE IF id \notin DOMAIN appts THEN done("not_found")
           ELSE /\ pend' = [pend EXCEPT ![c] = InFlight("del_commit", id, <<>>)]
                /\ last' = Ev(c, "delete_appointment", id, "pending")

\* db.session.delete(appt); db.session.commit(): DELETE ... WHERE id = ?
delete_commit(c) ==
    /\ pend[c].pc = "del_commit"
    /\ pend' = [pend EXCEPT ![c] = Idle]
    /\ appts' = Delete(appts, pend[c].id)
    /\ last' = Ev(c, "delete_appointment", pend[c].id, "deleted")
    /\ UNCHANGED <<users, session, twilio>>

\* Faulty variant of BossUnauthorized: the role is not checked.
BossUnauthorizedNoRole(s) == ~is_logged_in(s)

\* not is_logged_in() or not is_boss()
BossUnauthorized(s) == ~is_logged_in(s) \/ ~is_boss(s)

\* Faulty variant of boss_cancel: appt.canceled is not checked, so a canceled
\* appointment is canceled and notified again.
boss_cancel_unchecked(c, id) ==
    /\ pend[c].pc = "idle"
    /\ UNCHANGED <<users, appts, session, twilio>>
    /\ LET done(outcome) == /\ last' = Ev(c, "boss_cancel", id, outcome)
                            /\ UNCHANGED pend
       IN  IF ~is_logged_in(session[c]) \/ ~is_boss(session[c]) THEN done("unauthorized")
           ELSE IF id \notin DOMAIN appts THEN done("not_found")
           ELSE /\ pend' = [pend EXCEPT ![c] = InFlight("bc_commit", id, <<>>)]
                /\ last' = Ev(c, "boss_cancel", id, "pending")

\* POST /boss/appointments/<id>/cancel, up to the check of appt.canceled
boss_cancel(c, id) ==
    /\ pend[c].pc = "idle"
    /\ UNCHANGED <<users, appts, session, twilio>>
    /\ LET done(outcome) == /\ last' = Ev(c, "boss_cancel", id, outcome)
                            /\ UNCHANGED pend
       IN  IF BossUnauthorized(session[c]) THEN done("unauthorized")
           ELSE IF id \notin DOMAIN appts THEN done("not_found")
           ELSE IF appts[id].canceled THEN done("already_canceled")
           ELSE /\ pend' = [pend EXCEPT ![c] = InFlight("bc_commit", id, <<>>)]
                /\ last' = Ev(c, "boss_cancel", id, "pending")

\* appt.canceled = True; db.session.commit()
boss_cancel_commit(c) ==
    /\ pend[c].pc = "bc_commit"
    /\ UNCHANGED <<users, session, twilio>>
    /\ LET id == pend[c].id
       IN  IF id \in DOMAIN appts
           THEN /\ appts' = SoftCancel(appts, id)
                /\ pend' = [pend EXCEPT ![c] = InFlight("bc_sms", id, <<>>)]
                /\ last' = Ev(c, "boss_cancel", id, "committed")
           ELSE /\ UNCHANGED appts
                /\ pend' = [pend EXCEPT ![c] = Idle]
                /\ last' = Ev(c, "boss_cancel", id, "server_error")

\* send_sms: False without a number or without the Twilio configuration (and
\* library); otherwise True unless the transport raises.
send_sms(to_number, transport_ok) ==
    IF to_number = <<>> \/ ~twilio THEN FALSE ELSE transport_ok

\* Faulty variant of boss_cancel_sms: a failed SMS undoes the cancellation.
boss_cancel_sms_rollback(c, transport_ok) ==
    /\ pend[c].pc = "bc_sms"
    /\ pend' = [pend EXCEPT ![c] = Idle]
    /\ UNCHANGED <<users, session, twilio>>
    /\ LET id == pend[c].id
       IN  IF id \notin DOMAIN appts
           THEN /\ last' = Ev(c, "boss_cancel", id, "server_error")
                /\ UNCHANGED appts
           ELSE IF send_sms(users[appts[id].user_id].phone, transport_ok)
           THEN /\ last' = Ev(c, "boss_cancel", id, "canceled_sms_sent")
                /\ UNCHANGED appts
           ELSE /\ last' = Ev(c, "boss_cancel", id, "canceled_sms_failed")
                /\ appts' = [appts EXCEPT ![id].canceled = FALSE]

\* The rest of boss_cancel: the message is built from the row and its owner,
\* which the session reloads after the commit (the reload raises when the row
\* is gone), then the SMS is attempted.
boss_cancel_sms(c, transport_ok) ==
    /\ pend[c].pc = "bc_sms"
    /\ pend' = [pend EXCEPT ![c] = Idle]
    /\ UNCHANGED <<users, appts, session, twilio>>
    /\ LET id == pend[c].id
       IN  IF id \notin DOMAIN appts
           THEN last' = Ev(c, "boss_cancel", id, "server_error")
           ELSE IF send_sms(users[appts[id].user_id].phone, transport_ok)
           THEN last' = Ev(c, "boss_cancel", id, "canceled_sms_sent")
           ELSE last' = Ev(c, "boss_cancel", id, "canceled_sms_failed")

(***************************************************************************)
(* Calendar view.  (The week grid and the month's name are page            *)
(* decoration computed by the standard library and are not modelled.)      *)
(***************************************************************************)
\* month_start = datetime(year, month, 1)
MonthStart(year, month) == datetime(year, month, 1, 0)

\* Faulty variant of MonthEnd: the year does not roll over after December.
MonthEndSameYear(year, month) == datetime(year, (month % 12) + 1, 1, 0)

\* month_end = datetime(year + (month // 12), (month % 12) + 1, 1)
MonthEnd(year, month) == datetime(year + (month \div 12), (month % 12) + 1, 1, 0)

\* Faulty variant of CalendarQuery: the rows are not restricted to the
\* session's user.
CalendarQueryAllUsers(s, year, month) ==
    { id \in DOMAIN appts :
        /\ DtLeq(datetime(year, month, 1, 0), appts[id].start_at)
        /\ DtLess(appts[id].start_at,
                  datetime(year + (month \div 12), (month % 12) + 1, 1, 0)) }

\* The rows the calendar query selects: start_at in [month_start, month_end),
\* and for a session that is not the boss's only its own.
CalendarQuery(s, year, month) ==
    { id \in DOMAIN appts :
        /\ DtLeq(MonthStart(year, month), appts[id].start_at)
        /\ DtLess(appts[id].start_at, MonthEnd(year, month))
        /\ (is_boss(s) \/ appts[id].user_id = s.user_id) }

\* appts_by_day: day of month -> the day's rows, in the order of the query
ByDay(rows) ==
    [d \in {appts[rows[i]].start_at.d : i \in 1..Len(rows)} |->
        LET OnDay(id) == appts[id].start_at.d = d IN SelectSeq(rows, OnDay)]

PrevMonth(year, month) == IF month > 1 THEN <<year, month - 1>> ELSE <<year - 1, 12>>

NextMonth(year, month) == IF month < 12 THEN <<year, month + 1>> ELSE <<year + 1, 1>>

\* if month < 1 or month > 12: month = date.today().month
NormMonth(month, today) == IF month < 1 \/ month > 12 THEN today.m ELSE month

\* The page data of calendar_view for session s and (year, month).
CalendarPage(s, year, month) ==
    LET rows == OrderByStart(CalendarQuery(s, year, month))
    IN  [NoView EXCEPT !.year = year, !.month = month, !.by_day = ByDay(rows),
                       !.prev = PrevMonth(year, month), !.next = NextMonth(year, month)]

\* GET /calendar?year&month, served on the day `today`.  Building month_start
\* or month_end raises ValueError, which the handler does not catch, when the
\* year is one datetime does not accept.
calendar_view(c, year, month0, today) ==
    /\ pend[c].pc = "idle"
    /\ UNCHANGED <<users, appts, session, pend, twilio>>
    /\ LET month == NormMonth(month0, today)
       IN  IF ~is_logged_in(session[c])
           THEN last' = Ev(c, "calendar_view", 0, "login_required")
           ELSE IF ~ValidYear(MonthStart(year, month).y) \/ ~ValidYear(MonthEnd(year, month).y)
           THEN last' = [Ev(c, "calendar_view", 0, "server_error") EXCEPT
                            !.view = [NoView EXCEPT !.asked = <<year, month0>>]]
           ELSE last' = EvView(c, "calendar_view",
                               [CalendarPage(session[c], year, month) EXCEPT
                                   !.asked = <<year, month0>>])

(***************************************************************************)
(* The system: any client may issue any request, and a request in flight   *)
(* takes its next step, at any time.                                       *)
(***************************************************************************)
\* Appointment ids a request may name.
ApptIds == 1..MaxApptId

\* date.today() when a request is served
Today == datetime(2025, 1, 1, 0)

\* The (year, month) arguments of the calendar requests: a December, and a
\* month out of range.
ViewArgs == {<<2024, 12>>, <<2025, 13>>}

Next ==
    \/ \E c \in Clients, m \in Methods, f \in LoginForms : home(c, m, f)
    \/ \E c \in Clients : main(c)
    \/ \E c \in Clients : logout(c)
    \/ \E c \in Clients, m \in Methods, f \in RegForms : create_account(c, m, f)
    \/ \E c \in Clients : create_account_commit(c)
    \/ \E c \in Clients, m \in Methods, f \in ApptForms : create_appointment(c, m, f)
    \/ \E c \in Clients : list_appointments(c)
    \/ \E c \in Clients, id \in ApptIds : customer_cancel_appointment(c, id)
    \/ \E c \in Clients : customer_cancel_commit(c)
    \/ \E c \in Clients, id \in ApptIds : delete_appointment(c, id)
    \/ \E c \in Clients : delete_commit(c)
    \/ \E c \in Clients, id \in ApptIds : boss_cancel(c, id)
    \/ \E c \in Clients : boss_cancel_commit(c)
    \/ \E c \in Clients, ok \in BOOLEAN : boss_cancel_sms(c, ok)
    \/ \E c \in Clients, a \in ViewArgs : calendar_view(c, a[1], a[2], Today)

Spec == Init /\ [][Next]_vars

(***************************************************************************)
(* Registration on its own: the sign-in, logout and registration steps,    *)
(* with a third registration that repeats an email in another spelling.    *)
(***************************************************************************)
RegNext ==
    \/ \E c \in Clients, m \in Methods, f \in LoginForms : home(c, m, f)
    \/ \E c \in Clients : logout(c)
    \/ \E c \in Clients, m \in Methods, f \in RegForms \cup {SameEmailForm} :
          create_account(c, m, f)
    \/ \E c \in Clients : create_account_commit(c)

RegSpec == Init /\ [][RegNext]_vars

(***************************************************************************)
(* The calendar and the list as functions of the store: the appointment    *)
(* table and the customer's session are drawn at the start, and each       *)
(* behaviour serves one request for a read-only view, for every client,    *)
(* year and month below (a view changes nothing a later request reads).    *)
(***************************************************************************)
\* Start times around the month and year boundaries.
CalTimes ==
    { datetime(2024, 11, 30, 1439), datetime(2024, 12, 1, 0),
      datetime(2024, 12, 31, 1439), datetime(2025, 1, 1, 0),
      datetime(2025, 1, 1, 570), datetime(2025, 1, 31, 1439),
      datetime(2025, 2, 1, 0), datetime(2025, 12, 31, 1439),
      datetime(9999, 11, 30, 720) }

CalYears == {0, 2024, 2025, 9999}

CalMonths == 0..13

\* The accounts the first two registration forms create, after the boss.
CalUsers ==
    (1 :> BossUser) @@ (2 :> User(<<"A">>, <<"a">>, "pw1", <<"1">>))
                    @@ (3 :> User(<<"B">>, <<"b">>, "pw2", <<>>))

CalRows ==
    { Appointment(o, Svc("Haircut"), t, <<Svc("Haircut")>>) : o \in {2, 3}, t \in CalTimes }

CalInit ==
    /\ users = CalUsers
    /\ appts \in UNION {[1..n -> CalRows] : n \in 0..MaxCalAppts}
    /\ \E o \in {2, 3} :
          session = ("c1" :> LoggedSession(o, CalUsers[o])) @@ ("c2" :> LoggedSession(1, BossUser))
    /\ pend = [c \in Clients |-> Idle]
    /\ last = Ev("c1", "start", 0, "none")
    /\ twilio = FALSE

CalNext ==
    \/ \E c \in Clients, y \in CalYears, m \in CalMonths :
          last.op = "start" /\ calendar_view(c, y, m, Today)
    \/ \E c \in Clients : last.op = "start" /\ list_appointments(c)

CalSpec == CalInit /\ [][CalNext]_vars

(***************************************************************************)
(* Properties.  They read the session through the two predicates below,    *)
(* not through the handlers' own helpers.                                  *)
(***************************************************************************)
Authenticated(s) == "user_id" \in DOMAIN s

HasRole(s, role) == "role" \in DOMAIN s /\ s.role = role

BossSession(s) == Authenticated(s) /\ HasRole(s, "boss")

CustomerSession(s) == Authenticated(s) /\ ~HasRole(s, "boss")

\* The step just taken reported a cancellation it made itself: the owner's
\* "Appointment canceled.", or a boss cancel going on to the SMS.
FreshCancelReported ==
    \/ last.op = "customer_cancel_appointment" /\ last.outcome = "canceled"
    \/ last.op = "boss_cancel" /\ last.outcome = "committed"

\* C1: of the soft-cancel requests for an appointment, whatever their
\* interleaving, only one that itself takes canceled from false to true
\* reports a cancellation (and goes on to the SMS); every other one finds the
\* appointment already canceled.
C1_OneEffectiveCancel ==
    [][ FreshCancelReported' =>
          /\ last'.id \in DOMAIN appts
          /\ ~appts[last'.id].canceled
          /\ appts'[last'.id].canceled ]_vars

\* C2: a canceled appointment stays canceled in every later state in which it
\* exists, and a row disappears only by a completed hard delete.
C2_CanceledIsPermanent ==
    [][ \A id \in DOMAIN appts :
          /\ appts[id].canceled => (id \notin DOMAIN appts' \/ appts'[id].canceled)
          /\ id \notin DOMAIN appts' =>
                (last'.op = "delete_appointment" /\ last'.outcome = "deleted") ]_vars

\* A hard delete is about to remove an appointment that is canceled.
C2_Witness ==
    \E c \in Clients :
        /\ pend[c].pc = "del_commit"
        /\ pend[c].id \in DOMAIN appts
        /\ appts[pend[c].id].canceled

\* C4: a request to delete_appointment or boss_cancel whose session is not an
\* authenticated boss's changes no appointment and starts no commit or SMS;
\* rows are removed, and boss_cancel changes rows, only for a boss session.
C4_BossOnly ==
    [][ /\ (last'.op \in {"delete_appointment", "boss_cancel"} /\ ~BossSession(session[last'.c]))
           => (appts' = appts /\ pend' = pend /\ users' = users)
        /\ (DOMAIN appts \ DOMAIN appts' # {})
           => (last'.op = "delete_appointment" /\ BossSession(session[last'.c])) ]_vars

\* A customer's session was refused by a boss-only endpoint for an existing row.
C4_Witness ==
    /\ last.op \in {"delete_appointment", "boss_cancel"}
    /\ last.outcome = "unauthorized"
    /\ HasRole(session[last.c], "user")
    /\ last.id \in DOMAIN appts

\* C5: a customer's cancel request for an appointment of another user ends
\* "Appointment not found", as for an id with no row, and changes no
\* appointment: a customer's request changes only the customer's own rows.
C5_OnlyOwnAppointments ==
    [][ ( /\ last'.op = "customer_cancel_appointment"
          /\ CustomerSession(session[last'.c])
          /\ last'.id \in DOMAIN appts
          /\ appts[last'.id].user_id # session[last'.c].user_id )
        => (last'.outcome = "not_found" /\ appts' = appts) ]_vars

\* C6: boss_cancel attempts the SMS only after its commit has written
\* canceled = true, and the SMS step, whatever send_sms returns, changes no
\* appointment; without a phone number or without the Twilio configuration
\* the request ends with the "SMS could not be sent" warning.
C6_CommitBeforeSms ==
    [][ \A c \in Clients :
          /\ (pend'[c].pc = "bc_sms" /\ pend[c].pc # "bc_sms")
             => /\ pend[c].pc = "bc_commit"
                /\ pend'[c].id \in DOMAIN appts'
                /\ appts'[pend'[c].id].canceled
          /\ (pend[c].pc = "bc_sms" /\ pend'[c].pc # "bc_sms")
             => /\ appts' = appts
                /\ pend'[c].pc = "idle"
                /\ pend[c].id \in DOMAIN appts =>
                     /\ last'.outcome \in {"canceled_sms_sent", "canceled_sms_failed"}
                     /\ (users[appts[pend[c].id].user_id].phone = <<>> \/ ~twilio)
                           => last'.outcome = "canceled_sms_failed" ]_vars

\* A boss cancel ended with the SMS warning and the appointment is canceled.
C6_Witness ==
    /\ last.op = "boss_cancel"
    /\ last.outcome = "canceled_sms_failed"
    /\ last.id \in DOMAIN appts
    /\ appts[last.id].canceled

\* The session of the client of the step just taken may soft-cancel
\* appointment id: its owner on the customer path, a boss on the boss path.
MayCancel(s, op, id) ==
    \/ op = "customer_cancel_appointment" /\ CustomerSession(s) /\ appts[id].user_id = s.user_id
    \/ op = "boss_cancel" /\ BossSession(s)

\* C7: a soft-cancel request (either path, by a requester allowed to cancel)
\* made when the appointment is already canceled reports "already canceled",
\* changes nothing and starts no commit and no SMS; a request that reports a
\* cancellation leaves canceled = true.
C7_SecondCancelIsNoOp ==
    [][ /\ ( /\ last'.op \in {"customer_cancel_appointment", "boss_cancel"}
             /\ pend[last'.c].pc = "idle"
             /\ last'.id \in DOMAIN appts
             /\ appts[last'.id].canceled
             /\ MayCancel(session[last'.c], last'.op, last'.id) )
           => /\ last'.outcome = "already_canceled"
              /\ appts' = appts
              /\ pend' = pend
        /\ FreshCancelReported'
           => (last'.id \in DOMAIN appts' /\ appts'[last'.id].canceled) ]_vars

\* A second soft cancel found the appointment canceled.
C7_Witness ==
    /\ last.op \in {"customer_cancel_appointment", "boss_cancel"}
    /\ last.outcome = "already_canceled"
    /\ last.id \in DOMAIN appts
    /\ appts[last.id].canceled

BossBlockedOps ==
    {"main", "create_account", "create_appointment", "list_appointments",
     "customer_cancel_appointment"}

\* C10: a request by an authenticated boss session to a handler wrapped by
\* block_boss_only is redirected to the calendar and changes neither store,
\* nor the session, nor starts a commit.
C10_BossIsRedirected ==
    [][ (last'.op \in BossBlockedOps /\ BossSession(session[last'.c]))
        => /\ last'.outcome = "redirect_calendar"
           /\ users' = users
           /\ appts' = appts
           /\ pend' = pend
           /\ session' = session ]_vars

\* The boss's session asked the customer path to cancel an existing
\* appointment and was redirected.
C10_Witness ==
    /\ last.op = "customer_cancel_appointment"
    /\ last.outcome = "redirect_calendar"
    /\ BossSession(session[last.c])
    /\ last.id \in DOMAIN appts

\* No two user rows have the same email after trimming and lower-casing.
UniqueEmails ==
    \A i, j \in DOMAIN users :
        i # j => NormEmail(users[i].email) # NormEmail(users[j].email)

\* C8: emails stay unique, and a registration that reaches its insert when a
\* user with its normalised email exists ends "already registered", adding
\* no row and changing none.
C8_DuplicateRejected ==
    [][ /\ UniqueEmails'
        /\ \A c \in Clients :
             ( /\ pend[c].pc = "reg_insert"
               /\ pend'[c].pc = "idle"
               /\ \E id \in DOMAIN users :
                     NormEmail(users[id].email) = NormEmail(pend[c].row.email) )
             => (last'.outcome = "already_registered" /\ users' = users) ]_vars

(***************************************************************************)
(* Properties of the views.                                                *)
(***************************************************************************)
\* The appointments a calendar page shows: those in its day buckets.
ViewIds(v) == UNION {{v.by_day[d][i] : i \in 1..Len(v.by_day[d])} : d \in DOMAIN v.by_day}

InMonth(id, y, m) == appts[id].start_at.y = y /\ appts[id].start_at.m = m

InScope(s, id) == HasRole(s, "boss") \/ appts[id].user_id = s.user_id

CalendarRendered == last.op = "calendar_view" /\ last.outcome = "rendered"

\* C3: a calendar page of a session that is not the boss's shows only that
\* user's appointments; the boss's page shows every appointment, of any user,
\* that starts in the page's month; the list shows only the user's own.
C3_Visibility ==
    LET s == session[last.c]
        v == last.view
    IN  /\ (CalendarRendered /\ ~HasRole(s, "boss"))
           => \A id \in ViewIds(v) : appts[id].user_id = s.user_id
        /\ (CalendarRendered /\ HasRole(s, "boss"))
           => \A id \in DOMAIN appts : InMonth(id, v.year, v.month) => id \in ViewIds(v)
        /\ (last.op = "list_appointments" /\ last.outcome = "rendered")
           => \A i \in 1..Len(v.appts) : appts[v.appts[i]].user_id = s.user_id

\* A customer's calendar page shows an appointment while another user has one
\* in the same month.
C3_Witness ==
    LET s == session[last.c]
        v == last.view
    IN  /\ CalendarRendered
        /\ ~HasRole(s, "boss")
        /\ ViewIds(v) # {}
        /\ \E id \in DOMAIN appts :
              InMonth(id, v.year, v.month) /\ appts[id].user_id # s.user_id

\* Months counted from year 0: the month after (y, m) has the next number.
MonthNo(y, m) == y * 12 + (m - 1)

YearMonthOf(n) == <<n \div 12, (n % 12) + 1>>

\* The page v of session s is the page of its (year, month): the queried range
\* runs from the month's first instant to the next month's, each appointment
\* in scope that starts in the month is once in the bucket of its day, every
\* bucket holds only such appointments, in ascending start order, and the
\* neighbouring months roll the year over.
BucketsOk(s, v) ==
    /\ MonthStart(v.year, v.month) = datetime(v.year, v.month, 1, 0)
    /\ LET n == YearMonthOf(MonthNo(v.year, v.month) + 1)
       IN  MonthEnd(v.year, v.month) = datetime(n[1], n[2], 1, 0)
    /\ \A id \in DOMAIN appts :
          (InScope(s, id) /\ InMonth(id, v.year, v.month))
          => /\ appts[id].start_at.d \in DOMAIN v.by_day
             /\ LET b == v.by_day[appts[id].start_at.d]
                IN  Cardinality({i \in 1..Len(b) : b[i] = id}) = 1
    /\ \A d \in DOMAIN v.by_day :
          LET b == v.by_day[d]
          IN  \A i \in 1..Len(b) :
                /\ b[i] \in DOMAIN appts
                /\ appts[b[i]].start_at.d = d
                /\ InMonth(b[i], v.year, v.month)
                /\ InScope(s, b[i])
                /\ \A j \in (i + 1)..Len(b) :
                      DtLeq(appts[b[i]].start_at, appts[b[j]].start_at)
    /\ v.prev = YearMonthOf(MonthNo(v.year, v.month) - 1)
    /\ v.next = YearMonthOf(MonthNo(v.year, v.month) + 1)

\* The step just taken was a calendar request, by an authenticated session,
\* that asked for a month in 1..12.
CalendarAsked ==
    /\ last.op = "calendar_view"
    /\ Authenticated(session[last.c])
    /\ last.view.asked[2] \in 1..12

============================================================================
